---- MODULE Spec2Model ----
(***************************************************************************)
(* A model of genanki-rs' package writer: Package::write_maybe_timestamp   *)
(* and the functions it calls (src/src/package.rs, deck.rs, card.rs,       *)
(* apkg_schema.rs).                                                        *)
(*                                                                         *)
(* A Package is built by the public operations (Deck::new, add_note,       *)
(* set_col_data, add_grave_entry, ...) and then written.  One write is a   *)
(* sequence of steps: the database phase inside one transaction            *)
(* (write_schema_and_col_table, write_deck_content_data, commit), then     *)
(* the archive phase (collection.anki2, media manifest, media entries).    *)
(*                                                                         *)
(* Representation:                                                         *)
(*  - Option<T>: None is <<>>, Some(x) is <<x>>.                           *)
(*  - timestamp_sec (an f64 of seconds) is a whole number of quarter       *)
(*    milliseconds, so that (timestamp * 1000.0) as usize and              *)
(*    timestamp as i64 are real floors.  Timestamps are non-negative.      *)
(*  - a text column of the col row is [lit, obj]: a literal string, or the *)
(*    JSON text of an object given by its set of [k, v] members.           *)
(*  - the sqlite database is [tables, indexes, rows]; a statement that     *)
(*    sqlite rejects sets err and every later statement is skipped (the    *)
(*    ? operator).                                                         *)
(***************************************************************************)
EXTENDS Integers, Sequences, FiniteSets, TLC

VARIABLES
    pkg,          \* the Package: decks, media_files, side tables, overrides
    pc,           \* position in Package::write_maybe_timestamp
    timestamp,    \* timestamp_sec of the running write
    db,           \* the temporary database: [tables, indexes, rows]
    sql_log,      \* statements executed on the transaction, in order
    issued,       \* values returned by id_gen.next(), in order
    committed,    \* the transaction has been committed
    zip,          \* archive entries started on the writer: [name, bytes]
    media_left,   \* media indices whose entry is not yet written
    result,       \* "none" while running, then "Ok", "Err" or "panic"
    key_order,    \* order in which each hash map of the col row was serialized
    prev          \* what the previous write of this package left, if any

vars == <<pkg, pc, timestamp, db, sql_log, issued, committed, zip, media_left, result,
          key_order, prev>>

----------------------------------------------------------------------------
(* Bounds of the model. *)

MaxDecks == 2
MaxNotes == 2
MaxCards == 2
MaxGraves == 2
MaxMedia == 2
MaxConfigs == 2
MaxDeckConfigs == 2
MaxTags == 1

\* timestamp_sec in quarter milliseconds: 1.00025 s and 2.0015 s
Timestamps == {4001, 8006}

\* target schema versions passed to set_col_data
Versions == {11, 12, 15, 16, 17, 18}

----------------------------------------------------------------------------
(* Option<T> *)

None == <<>>
Some(x) == <<x>>
unwrap_or(o, d) == IF o = None THEN d ELSE o[1]
is_some(o) == o # None

Last(s) == s[Len(s)]

(* (timestamp_sec * 1000.0) as i64 / as usize, and timestamp_sec as i64 *)
TimestampMillis(ts) == ts \div 4
TimestampSecs(ts) == ts \div 4000

----------------------------------------------------------------------------
(* Text columns and JSON objects *)

Lit(s) == [lit |-> s, obj |-> {}]

\* serde_json::to_string of a map: "{}" for the empty map
to_string(map) == IF map = {} THEN Lit("{}") ELSE [lit |-> "", obj |-> map]

\* HashMap::insert and contains_key on a map kept as a set of [k, v]
contains_key(map, k) == \E e \in map : e.k = k
insert(map, k, v) == {e \in map : e.k # k} \cup {[k |-> k, v |-> v]}

----------------------------------------------------------------------------
(* The sqlite transaction.                                                 *)
(* st = [tables, indexes, rows, log, err, id_gen, issued]                  *)

EmptyDb == [tables |-> <<>>, indexes |-> {}, rows |-> <<>>]

HasTable(st, t) == t \in DOMAIN st.tables

Logged(st, op, t) == [st EXCEPT !.log = Append(@, [op |-> op, table |-> t])]

\* CREATE TABLE t (cols, PRIMARY KEY pk); ine: IF NOT EXISTS
CreateTable(st, t, cols, pk, ine) ==
    IF st.err # "" THEN st
    ELSE LET s1 == Logged(st, "create", t) IN
         IF HasTable(st, t)
         THEN IF ine THEN s1 ELSE [s1 EXCEPT !.err = "database"]
         ELSE [s1 EXCEPT !.tables = @ @@ (t :> [cols |-> cols, pk |-> pk]),
                         !.rows = @ @@ (t :> <<>>)]

\* CREATE INDEX ix ON t
CreateIndex(st, ix, t, ine) ==
    IF st.err # "" THEN st
    ELSE LET s1 == Logged(st, "index", t) IN
         IF ix \in st.indexes
         THEN IF ine THEN s1 ELSE [s1 EXCEPT !.err = "database"]
         ELSE IF ~HasTable(st, t) THEN [s1 EXCEPT !.err = "database"]
         ELSE [s1 EXCEPT !.indexes = @ \cup {ix}]

SameKey(pk, r1, r2) == \A i \in 1..Len(pk) : r1[pk[i]] = r2[pk[i]]

RECURSIVE Without(_, _, _)
Without(rows, pk, row) ==
    IF rows = <<>> THEN <<>>
    ELSE IF SameKey(pk, Head(rows), row) THEN Without(Tail(rows), pk, row)
    ELSE <<Head(rows)>> \o Without(Tail(rows), pk, row)

\* INSERT INTO t; replace: INSERT OR REPLACE.  A missing table or a second
\* row with the same primary key is a database error.
Insert(st, t, row, replace) ==
    IF st.err # "" THEN st
    ELSE LET s1 == Logged(st, "insert", t) IN
         IF ~HasTable(st, t) THEN [s1 EXCEPT !.err = "database"]
         ELSE LET pk == st.tables[t].pk
                  old == st.rows[t]
                  dup == pk # <<>> /\ \E i \in 1..Len(old) : SameKey(pk, old[i], row)
              IN IF dup /\ ~replace THEN [s1 EXCEPT !.err = "database"]
                 ELSE IF dup THEN [s1 EXCEPT !.rows[t] = Append(Without(old, pk, row), row)]
                 ELSE [s1 EXCEPT !.rows[t] = Append(old, row)]

----------------------------------------------------------------------------
(* apkg_schema.rs: the DDL batches *)

Table(t, cols, pk, ine) == [kind |-> "table", name |-> t, table |-> t, cols |-> cols, pk |-> pk, ine |-> ine]
Index(ix, t, ine) == [kind |-> "index", name |-> ix, table |-> t, cols |-> <<>>, pk |-> <<>>, ine |-> ine]

ColCols == <<"id", "crt", "mod", "scm", "ver", "dty", "usn", "ls", "conf", "models", "decks", "dconf", "tags">>
NotesCols == <<"id", "guid", "mid", "mod", "usn", "tags", "flds", "sfld", "csum", "flags", "data">>
CardsCols == <<"id", "nid", "did", "ord", "mod", "usn", "type", "queue", "due", "ivl", "factor", "reps", "lapses", "left", "odue", "odid", "flags", "data">>
RevlogCols == <<"id", "cid", "usn", "ease", "ivl", "lastIvl", "factor", "time", "type">>

APKG_SCHEMA == <<
    Table("col", ColCols, <<"id">>, FALSE),
    Table("notes", NotesCols, <<"id">>, FALSE),
    Table("cards", CardsCols, <<"id">>, FALSE),
    Table("revlog", RevlogCols, <<"id">>, FALSE),
    Table("graves", <<"usn", "oid", "type">>, <<>>, FALSE),
    Table("decks", <<"id", "name", "mtime_secs", "usn", "common", "kind">>, <<"id">>, FALSE),
    Table("deck_config", <<"id", "name", "mtime_secs", "usn", "config">>, <<"id">>, FALSE),
    Table("notetypes", <<"id", "name", "mtime_secs", "usn", "config">>, <<"id">>, FALSE),
    Table("templates", <<"ntid", "ord", "name", "mtime_secs", "usn", "config">>, <<"ntid", "ord">>, FALSE),
    Table("fields", <<"ntid", "ord", "name", "config">>, <<"ntid", "ord">>, FALSE),
    Table("config", <<"key", "usn", "mtime_secs", "val">>, <<"key">>, FALSE),
    Index("ix_notes_usn", "notes", FALSE),
    Index("ix_cards_usn", "cards", FALSE),
    Index("ix_revlog_usn", "revlog", FALSE),
    Index("ix_cards_nid", "cards", FALSE),
    Index("ix_cards_sched", "cards", FALSE),
    Index("ix_revlog_cid", "revlog", FALSE),
    Index("ix_notes_csum", "notes", FALSE),
    Index("ix_decks_usn", "decks", FALSE),
    Index("ix_deck_config_usn", "deck_config", FALSE),
    Index("ix_notetypes_usn", "notetypes", FALSE),
    Index("ix_templates_usn", "templates", FALSE),
    Index("ix_fields_ntid", "fields", FALSE) >>

\* The batch for versions below 12; its text is not in apkg_schema.rs.  Per
\* the table set of a legacy collection: col, notes, cards, revlog and
\* their indexes (graves is created by write_schema_and_col_table).
APKG_SCHEMA_V11 == <<
    Table("col", ColCols, <<"id">>, FALSE),
    Table("notes", NotesCols, <<"id">>, FALSE),
    Table("cards", CardsCols, <<"id">>, FALSE),
    Table("revlog", RevlogCols, <<"id">>, FALSE),
    Index("ix_notes_usn", "notes", FALSE),
    Index("ix_cards_usn", "cards", FALSE),
    Index("ix_revlog_usn", "revlog", FALSE),
    Index("ix_cards_nid", "cards", FALSE),
    Index("ix_cards_sched", "cards", FALSE),
    Index("ix_revlog_cid", "revlog", FALSE),
    Index("ix_notes_csum", "notes", FALSE) >>

APKG_SCHEMA_FIELDS == <<
    Table("fields", <<"ntid", "ord", "name", "config">>, <<"ntid", "ord">>, TRUE),
    Index("ix_fields_ntid", "fields", TRUE) >>

ExecStmt(st, s) ==
    IF s.kind = "table" THEN CreateTable(st, s.name, s.cols, s.pk, s.ine)
    ELSE CreateIndex(st, s.name, s.table, s.ine)

\* Connection::execute_batch: the statements in order, stopping at the first error
RECURSIVE execute_batch(_, _)
execute_batch(st, stmts) ==
    IF stmts = <<>> THEN st
    ELSE execute_batch(ExecStmt(st, Head(stmts)), Tail(stmts))

----------------------------------------------------------------------------
(* card.rs *)

Card_new(ord, suspend) ==
    [ord |-> ord, suspend |-> suspend, reps |-> None, lapses |-> None,
     ivl |-> None, due |-> None, factor |-> None, card_type |-> None,
     queue |-> None, left |-> None, review_history |-> <<>>, data |-> None,
     custom_card_id |-> None, usn |-> -1]

new_with_review_data(ord, suspend, reps, lapses, ivl, due, factor, card_type, queue, left) ==
    [ord |-> ord, suspend |-> suspend, reps |-> Some(reps), lapses |-> Some(lapses),
     ivl |-> Some(ivl), due |-> Some(due), factor |-> Some(factor),
     card_type |-> Some(card_type), queue |-> Some(queue), left |-> Some(left),
     review_history |-> <<>>, data |-> None, custom_card_id |-> None, usn |-> -1]

RevlogEntry(id) ==
    [id |-> id, ease |-> 3, ivl |-> 1, last_ivl |-> 0, factor |-> 2500,
     time |-> 5, review_type |-> 0, usn |-> -1]

\* id_gen.next().unwrap() on the RangeFrom<usize>
NextId(st) == [st EXCEPT !.id_gen = @ + 1, !.issued = Append(@, st.id_gen)]

\* rusqlite binds a usize through i64::try_from.  custom_id as usize of a
\* negative i64 wraps to 2^64 + custom_id, which is above i64::MAX: the model
\* keeps the negative number for the wrapped value.
BindsAsI64(u) == u >= 0

\* card.rs 144-148
QueueFieldFirst(card) == unwrap_or(card.queue, IF card.suspend THEN -1 ELSE 0)
card_queue(card) == IF card.suspend THEN -1 ELSE unwrap_or(card.queue, 0)

\* card.rs 150-155: the card id, and the allocator after resolving it
card_id(card, st) ==
    IF is_some(card.custom_card_id) THEN card.custom_card_id[1] ELSE st.id_gen

AdvanceAlways(card, st) == NextId(st)
NeverAdvance(card, st) == st
after_card_id(card, st) ==
    IF is_some(card.custom_card_id) THEN st ELSE NextId(st)

cards_row(card, cid, ts, deck_id, note_id) ==
    [id |-> cid, nid |-> note_id, did |-> deck_id, ord |-> card.ord,
     mod |-> TimestampSecs(ts), usn |-> card.usn,
     type |-> unwrap_or(card.card_type, 0), queue |-> card_queue(card),
     due |-> unwrap_or(card.due, 0), ivl |-> unwrap_or(card.ivl, 0),
     factor |-> unwrap_or(card.factor, 0), reps |-> unwrap_or(card.reps, 0),
     lapses |-> unwrap_or(card.lapses, 0), left |-> unwrap_or(card.left, 0),
     odue |-> 0, odid |-> 0, flags |-> 0, data |-> unwrap_or(card.data, "")]

RevlogRowWithoutCid(e, cid) ==
    [id |-> e.id, cid |-> 0, usn |-> e.usn, ease |-> e.ease, ivl |-> e.ivl,
     lastIvl |-> e.last_ivl, factor |-> e.factor, time |-> e.time, type |-> e.review_type]
revlog_row(e, cid) ==
    [id |-> e.id, cid |-> cid, usn |-> e.usn, ease |-> e.ease, ivl |-> e.ivl,
     lastIvl |-> e.last_ivl, factor |-> e.factor, time |-> e.time, type |-> e.review_type]

\* an INSERT one of whose usize parameters does not convert
InsertBound(st, t, row, u) ==
    IF st.err # "" THEN st
    ELSE IF ~BindsAsI64(u) THEN [Logged(st, "insert", t) EXCEPT !.err = "database"]
    ELSE Insert(st, t, row, FALSE)

RECURSIVE write_review_history(_, _, _)
write_review_history(st, history, cid) ==
    IF history = <<>> \/ st.err # "" THEN st
    ELSE write_review_history(
            InsertBound(st, "revlog", revlog_row(Head(history), cid), cid),
            Tail(history), cid)

Card_write_to_db(st, card, ts, deck_id, note_id) ==
    IF st.err # "" THEN st
    ELSE LET cid == card_id(card, st)
             s1 == after_card_id(card, st)
             s2 == InsertBound(s1, "cards", cards_row(card, cid, ts, deck_id, note_id), cid)
         IN write_review_history(s2, card.review_history, cid)

----------------------------------------------------------------------------
(* note.rs is not part of the sources; Note::write_to_db after its         *)
(* interface write(row-sink, timestamp, deck-id, allocator): the note      *)
(* takes the next id, inserts its notes row and writes its cards in order. *)

Note(mid, cards) == [model |-> [id |-> mid], cards |-> cards]

notes_row(note, nid, ts) ==
    [id |-> nid, mid |-> note.model.id, mod |-> TimestampSecs(ts), usn |-> -1]

RECURSIVE write_cards(_, _, _, _, _)
write_cards(st, cards, ts, deck_id, note_id) ==
    IF cards = <<>> \/ st.err # "" THEN st
    ELSE write_cards(Card_write_to_db(st, Head(cards), ts, deck_id, note_id),
                     Tail(cards), ts, deck_id, note_id)

Note_write_to_db(st, note, ts, deck_id) ==
    IF st.err # "" THEN st
    ELSE LET nid == st.id_gen
             s1 == NextId(st)
             s2 == Insert(s1, "notes", notes_row(note, nid, ts), FALSE)
         IN write_cards(s2, note.cards, ts, deck_id, nid)

\* Model::to_model_db_entry(timestamp, deck_id), of model.rs (not part of
\* the sources): the descriptor carries the model id and the deck id
to_model_db_entry(model, ts, deck_id) == [id |-> model.id, did |-> deck_id]

----------------------------------------------------------------------------
(* deck.rs *)

Deck_new(id, name, description) ==
    [id |-> id, name |-> name, description |-> description, notes |-> <<>>]

to_deck_db_entry(deck) ==
    [collapsed |-> FALSE, conf |-> 1, desc |-> deck.description,
     deck_db_entry_dyn |-> 0, extend_new |-> 10, extend_rev |-> 50,
     id |-> deck.id, lrn_today |-> <<0, 0>>, deck_db_entry_mod |-> 0,
     name |-> deck.name, new_today |-> <<0, 0>>, rev_today |-> <<0, 0>>,
     time_today |-> <<0, 0>>, usn |-> -1]

RECURSIVE write_notes_and_cards_to_db(_, _, _, _)
write_notes_and_cards_to_db(st, notes, ts, deck_id) ==
    IF notes = <<>> \/ st.err # "" THEN st
    ELSE write_notes_and_cards_to_db(Note_write_to_db(st, Head(notes), ts, deck_id),
                                     Tail(notes), ts, deck_id)

----------------------------------------------------------------------------
(* package.rs: the Package and its entries *)

\* Vec<u8> payloads: whether the bytes are UTF-8 / parse as JSON, and their text
Bytes(text, utf8, json) == [text |-> text, utf8 |-> utf8, json |-> json]

ConfigEntry(key, val) == [key |-> key, usn |-> 0, mtime_secs |-> 0, val |-> val]
DeckConfigEntry(id, blob) ==
    [id |-> id, name |-> "cfg", mtime_secs |-> 0, usn |-> 0, config_blob |-> blob]
GraveEntry(oid, gtype, usn) == [oid |-> oid, gtype |-> gtype, usn |-> usn]
TagEntry(tag) == [tag |-> tag, usn |-> 0, collapsed |-> 0, config |-> None]

MediaPath(path) == [kind |-> "Path", path |-> path, bytes |-> "", name |-> ""]
MediaBytes(bytes, name) == [kind |-> "Bytes", path |-> <<>>, bytes |-> bytes, name |-> name]

\* Package::new_from_memory (package.rs 269-291)
new_from_memory(decks, media_files) ==
    [decks |-> decks, media_files |-> media_files, configs |-> <<>>,
     deck_configs |-> <<>>, deck_infos |-> <<>>, notetypes |-> <<>>,
     field_entries |-> <<>>, template_entries |-> <<>>, graves |-> <<>>,
     tags |-> <<>>, col_crt |-> None, col_ver |-> None, col_scm |-> None,
     col_usn |-> None, col_ls |-> None, col_conf |-> None, col_models |-> None,
     col_decks |-> None, col_dconf |-> None]

\* Package::set_col_data (package.rs 211-233)
ColDataKeepingOld(p, crt, ver, scm, usn, ls, conf, models, decks, dconf) ==
    [p EXCEPT !.col_crt = IF crt = None THEN @ ELSE crt,
              !.col_ver = IF ver = None THEN @ ELSE ver,
              !.col_scm = IF scm = None THEN @ ELSE scm,
              !.col_usn = IF usn = None THEN @ ELSE usn,
              !.col_ls = IF ls = None THEN @ ELSE ls,
              !.col_conf = IF conf = None THEN @ ELSE conf,
              !.col_models = IF models = None THEN @ ELSE models,
              !.col_decks = IF decks = None THEN @ ELSE decks,
              !.col_dconf = IF dconf = None THEN @ ELSE dconf]
col_data(p, crt, ver, scm, usn, ls, conf, models, decks, dconf) ==
    [p EXCEPT !.col_crt = crt, !.col_ver = ver, !.col_scm = scm, !.col_usn = usn,
              !.col_ls = ls, !.col_conf = conf, !.col_models = models,
              !.col_decks = decks, !.col_dconf = dconf]

\* package.rs 389
DefaultVer == 18
target_ver(p) == unwrap_or(p.col_ver, DefaultVer)

default_dconf_json == "{\"1\": {\"autoplay\": true, \"id\": 1, ..., \"name\": \"Default\", ...}}"
default_conf_json == "{\"activeDecks\": [1], \"addToCur\": true, ...}"

\* serde_json::from_str(default_dconf_json).as_object(): one member, key "1"
default_dconf_map == {[k |-> "1", v |-> "{\"autoplay\": true, \"id\": 1, ..., \"name\": \"Default\", ...}"]}

RECURSIVE InsertAll(_, _, _, _)
InsertAll(st, t, rows, replace) ==
    IF rows = <<>> \/ st.err # "" THEN st
    ELSE InsertAll(Insert(st, t, Head(rows), replace), t, Tail(rows), replace)

\* package.rs 400-422
graves_table(ver) ==
    IF ver >= 18
    THEN Table("graves", <<"oid", "type", "usn">>, <<"oid", "type">>, FALSE)
    ELSE Table("graves", <<"usn", "oid", "type">>, <<>>, FALSE)

graves_row(g) == [oid |-> g.oid, type |-> g.gtype, usn |-> g.usn]
tags_row(t) == [tag |-> t.tag, usn |-> t.usn, collapsed |-> t.collapsed, config |-> t.config]
config_row(c) == [key |-> c.key, usn |-> c.usn, mtime_secs |-> c.mtime_secs, val |-> c.val]
deck_config_row(d) ==
    [id |-> d.id, name |-> d.name, mtime_secs |-> d.mtime_secs, usn |-> d.usn,
     config |-> d.config_blob]

\* package.rs 456-470 and 508-511: the dconf map of the col row
RECURSIVE dconf_entries(_, _)
dconf_entries(map, deck_configs) ==
    IF deck_configs = <<>> THEN map
    ELSE LET d == Head(deck_configs)
             m1 == IF d.config_blob.json
                   THEN insert(map, ToString(d.id), d.config_blob.text)
                   ELSE map
         IN dconf_entries(m1, Tail(deck_configs))

dconf_map_for_col(p, ver) ==
    IF ver >= 12 THEN dconf_entries(default_dconf_map, p.deck_configs)
    ELSE default_dconf_map

\* package.rs 472-583: the side tables of version 12 and later
side_tables(st, p) ==
    LET s1 == InsertAll(st, "config", [i \in 1..Len(p.configs) |-> config_row(p.configs[i])], TRUE)
        s2 == InsertAll(s1, "deck_config", [i \in 1..Len(p.deck_configs) |-> deck_config_row(p.deck_configs[i])], TRUE)
        s3 == CreateTable(s2, "decks", <<"id", "name", "mtime_secs", "usn", "common", "kind">>, <<"id">>, TRUE)
        s4 == InsertAll(s3, "decks", p.deck_infos, FALSE)
        s5 == CreateTable(s4, "notetypes", <<"id", "name", "mtime_secs", "usn", "config">>, <<"id">>, TRUE)
        s6 == InsertAll(s5, "notetypes", p.notetypes, FALSE)
        s7 == execute_batch(s6, APKG_SCHEMA_FIELDS)
        s8 == InsertAll(s7, "fields", p.field_entries, FALSE)
    IN InsertAll(s8, "templates", p.template_entries, FALSE)

\* package.rs 590-599
RECURSIVE ModelsOfNotesLastWins(_, _, _, _)
ModelsOfNotesLastWins(map, notes, ts, deck_id) ==
    IF notes = <<>> THEN map
    ELSE LET model == Head(notes).model
         IN ModelsOfNotesLastWins(
                insert(map, ToString(model.id), to_model_db_entry(model, ts, deck_id)),
                Tail(notes), ts, deck_id)

RECURSIVE models_of_notes(_, _, _, _)
models_of_notes(map, notes, ts, deck_id) ==
    IF notes = <<>> THEN map
    ELSE LET model == Head(notes).model
             k == ToString(model.id)
             m1 == IF contains_key(map, k) THEN map
                   ELSE insert(map, k, to_model_db_entry(model, ts, deck_id))
         IN models_of_notes(m1, Tail(notes), ts, deck_id)

RECURSIVE models_map_for_col(_, _, _)
models_map_for_col(map, decks, ts) ==
    IF decks = <<>> THEN map
    ELSE models_map_for_col(models_of_notes(map, Head(decks).notes, ts, Head(decks).id),
                            Tail(decks), ts)

\* package.rs 591-599: the calls of to_model_db_entry, in order, as
\* [id, did]: one call for each note whose model id is not yet a key
RECURSIVE conversions_of_notes(_, _, _)
conversions_of_notes(calls, notes, deck_id) ==
    IF notes = <<>> THEN calls
    ELSE LET id == Head(notes).model.id
             c1 == IF \E i \in 1..Len(calls) : calls[i].id = id THEN calls
                   ELSE Append(calls, [id |-> id, did |-> deck_id])
         IN conversions_of_notes(c1, Tail(notes), deck_id)

RECURSIVE model_conversions(_, _)
model_conversions(calls, decks) ==
    IF decks = <<>> THEN calls
    ELSE model_conversions(conversions_of_notes(calls, Head(decks).notes, Head(decks).id),
                           Tail(decks))

\* package.rs 615-618
RECURSIVE decks_entries(_, _)
decks_entries(map, decks) ==
    IF decks = <<>> THEN map
    ELSE decks_entries(insert(map, ToString(Head(decks).id), to_deck_db_entry(Head(decks))),
                       Tail(decks))

\* package.rs 620-623
NoDefaultDeck(map) == map
with_default_deck(map) ==
    IF ~contains_key(map, "1")
    THEN insert(map, "1", to_deck_db_entry(Deck_new(1, "Default", "")))
    ELSE map

decks_map_for_col(p) == with_default_deck(decks_entries({}, p.decks))

\* configs.iter().find(|c| c.key == key)
RECURSIVE find_config(_, _)
find_config(configs, key) ==
    IF configs = <<>> THEN None
    ELSE IF Head(configs).key = key THEN Some(Head(configs))
    ELSE find_config(Tail(configs), key)

\* package.rs 606-613, 625-632, 647-654: override, else "{}" from version 16, else computed
json_blob(custom, ver, map) ==
    IF is_some(custom) THEN Lit(custom[1])
    ELSE IF ver >= 16 THEN Lit("{}")
    ELSE to_string(map)

\* package.rs 636-645
conf_val(p, ver) ==
    IF is_some(p.col_conf) THEN Lit(p.col_conf[1])
    ELSE IF ver >= 16 THEN Lit("{}")
    ELSE LET e == find_config(p.configs, "conf") IN
         IF is_some(e)
         THEN Lit(IF e[1].val.utf8 THEN e[1].val.text ELSE default_conf_json)
         ELSE Lit(default_conf_json)

\* package.rs 656-662
tags_val(p) ==
    LET e == find_config(p.configs, "tags") IN
    IF is_some(e) THEN Lit(IF e[1].val.utf8 THEN e[1].val.text ELSE "{}")
    ELSE Lit("{}")

\* package.rs 585-588, 664-686: the col row; id NULL takes the next rowid
col_row(st, p, ts, ver) ==
    [id |-> IF HasTable(st, "col") THEN Len(st.rows["col"]) + 1 ELSE 1,
     crt |-> unwrap_or(p.col_crt, TimestampSecs(ts)),
     mod |-> TimestampMillis(ts),
     scm |-> unwrap_or(p.col_scm, TimestampMillis(ts)),
     ver |-> ver, dty |-> 0,
     usn |-> unwrap_or(p.col_usn, -1),
     ls |-> unwrap_or(p.col_ls, 0),
     conf |-> conf_val(p, ver),
     models |-> json_blob(p.col_models, ver, models_map_for_col({}, p.decks, ts)),
     decks |-> json_blob(p.col_decks, ver, decks_map_for_col(p)),
     dconf |-> json_blob(p.col_dconf, ver, dconf_map_for_col(p, ver)),
     tags |-> tags_val(p)]

\* package.rs 670-685: the one INSERT INTO col
InsertColTwice(st, p, ts, ver) ==
    LET s1 == Insert(st, "col", col_row(st, p, ts, ver), FALSE)
    IN Insert(s1, "col", col_row(s1, p, ts, ver), FALSE)
insert_col_row(st, p, ts, ver) == Insert(st, "col", col_row(st, p, ts, ver), FALSE)

\* package.rs 387-398: the batch of the target version
BatchWithoutGraves(ver) ==
    IF ver < 12 THEN APKG_SCHEMA_V11
    ELSE SelectSeq(APKG_SCHEMA, LAMBDA stmt : stmt.name # "graves")
schema_batch(ver) == IF ver < 12 THEN APKG_SCHEMA_V11 ELSE APKG_SCHEMA

\* Package::write_schema_and_col_table (package.rs 387-687)
write_schema_and_col_table(st, p, ts) ==
    LET ver == target_ver(p)
        s1 == execute_batch(st, schema_batch(ver))
        s2 == ExecStmt(s1, graves_table(ver))
        s3 == InsertAll(s2, "graves", [i \in 1..Len(p.graves) |-> graves_row(p.graves[i])], FALSE)
        s4 == IF ver >= 12 THEN InsertAll(s3, "tags", [i \in 1..Len(p.tags) |-> tags_row(p.tags[i])], FALSE) ELSE s3
        s5 == IF ver >= 12 THEN side_tables(s4, p) ELSE s4
    IN insert_col_row(s5, p, ts, ver)

\* Package::write_deck_content_data (package.rs 689-697)
RECURSIVE write_decks(_, _, _)
write_decks(st, decks, ts) ==
    IF decks = <<>> \/ st.err # "" THEN st
    ELSE write_decks(write_notes_and_cards_to_db(st, Head(decks).notes, ts, Head(decks).id),
                     Tail(decks), ts)

IdGenFromZero(ts) == 0
id_gen_start(ts) == TimestampMillis(ts)

\* an allocator that outlives the write and goes on where the last write stopped
AllocatorKeptAcrossWrites(st, p, ts) ==
    write_decks([st EXCEPT !.id_gen = IF prev # None /\ prev[1].issued # <<>>
                                      THEN Last(prev[1].issued) + 1
                                      ELSE id_gen_start(ts)],
                p.decks, ts)
write_deck_content_data(st, p, ts) ==
    write_decks([st EXCEPT !.id_gen = id_gen_start(ts)], p.decks, ts)

----------------------------------------------------------------------------
(* package.rs 338-385: the archive *)

\* the files on disk: path -> bytes
Files == (<<"a.png">> :> "bytes-of-a") @@ (<<"dir", "a.png">> :> "bytes-of-dir-a")

\* Path::file_name: the final component, none when the path ends in ".."
file_name(path) ==
    IF path = <<>> \/ Last(path) = ".." THEN None ELSE Some(Last(path))

\* package.rs 358-364; None where .expect("Should always have a filename") panics
display_name(m) == IF m.kind = "Path" THEN file_name(m.path) ELSE Some(m.name)

\* package.rs 347-367: index -> display name, indices from enumerate()
NameOfLast(media_files, i) == display_name(media_files[Len(media_files)])[1]
manifest_name(media_files, i) == display_name(media_files[i + 1])[1]

media_map(media_files) ==
    {[k |-> ToString(i), v |-> manifest_name(media_files, i)] : i \in 0..(Len(media_files) - 1)}

\* package.rs 378-381; None where read_file_bytes fails
media_bytes(m) ==
    IF m.kind = "Path"
    THEN IF m.path \in DOMAIN Files THEN Some(Files[m.path]) ELSE None
    ELSE Some(m.bytes)

Entry(name, data) == [name |-> name, data |-> data]

----------------------------------------------------------------------------
(* Building a package *)

TotalNotes(p) == LET n[i \in 0..Len(p.decks)] ==
                        IF i = 0 THEN 0 ELSE n[i - 1] + Len(p.decks[i].notes)
                 IN n[Len(p.decks)]

NoteCards(notes) == LET n[i \in 0..Len(notes)] ==
                            IF i = 0 THEN 0 ELSE n[i - 1] + Len(notes[i].cards)
                    IN n[Len(notes)]

TotalCards(p) == LET n[i \in 0..Len(p.decks)] ==
                        IF i = 0 THEN 0 ELSE n[i - 1] + NoteCards(p.decks[i].notes)
                 IN n[Len(p.decks)]

SeqsUpTo(S, n) == UNION {[1..k -> S] : k \in 0..n}

Building == pc = "idle"

WriteUnchanged ==
    UNCHANGED <<pc, timestamp, db, sql_log, issued, committed, zip, media_left, result,
                key_order, prev>>

\* package.decks.push(deck): decks is a public field (package.rs 147)
PushDeck(deck) ==
    /\ Building
    /\ Len(pkg.decks) < MaxDecks
    /\ pkg' = [pkg EXCEPT !.decks = Append(@, deck)]
    /\ WriteUnchanged

\* Deck::add_note on the last deck (deck.rs 44-46)
add_note(note) ==
    /\ Building
    /\ pkg.decks # <<>>
    /\ TotalNotes(pkg) < MaxNotes
    /\ TotalCards(pkg) + Len(note.cards) <= MaxCards
    /\ pkg' = [pkg EXCEPT !.decks[Len(pkg.decks)].notes = Append(@, note)]
    /\ WriteUnchanged

\* Package::set_col_data (package.rs 211-233)
set_col_data(crt, ver, scm, usn, ls, conf, models, decks, dconf) ==
    /\ Building
    /\ pkg' = col_data(pkg, crt, ver, scm, usn, ls, conf, models, decks, dconf)
    /\ pkg' # pkg
    /\ WriteUnchanged

\* Package::add_grave_entry (package.rs 255-258)
add_grave_entry(entry) ==
    /\ Building
    /\ Len(pkg.graves) < MaxGraves
    /\ pkg' = [pkg EXCEPT !.graves = Append(@, entry)]
    /\ WriteUnchanged

\* Package::add_config_entry (package.rs 202-204)
add_config_entry(entry) ==
    /\ Building
    /\ Len(pkg.configs) < MaxConfigs
    /\ pkg' = [pkg EXCEPT !.configs = Append(@, entry)]
    /\ WriteUnchanged

\* Package::add_deck_config_entry (package.rs 207-209)
add_deck_config_entry(entry) ==
    /\ Building
    /\ Len(pkg.deck_configs) < MaxDeckConfigs
    /\ pkg' = [pkg EXCEPT !.deck_configs = Append(@, entry)]
    /\ WriteUnchanged

\* Package::add_tag_entry (package.rs 261-263)
add_tag_entry(entry) ==
    /\ Building
    /\ Len(pkg.tags) < MaxTags
    /\ pkg' = [pkg EXCEPT !.tags = Append(@, entry)]
    /\ WriteUnchanged

----------------------------------------------------------------------------
(* Package::write_maybe_timestamp (package.rs 323-385), step by step *)

\* std HashMap iterates in an order fixed by the hasher keys of the map, and
\* every HashMap::new() takes new keys: serde_json::to_string (package.rs 612,
\* 631, 653) writes the members of a map in any order of its keys
Perms(S) ==
    {f \in [1..Cardinality(S) -> S] : \A i, j \in 1..Cardinality(S) : i # j => f[i] # f[j]}

Keys(map) == {e.k : e \in map}

NoOrder == [models |-> <<>>, decks |-> <<>>, dconf |-> <<>>]

\* the orders of the members of a column that json_blob serializes from a map
blob_orders(custom, ver, map) ==
    IF is_some(custom) \/ ver >= 16 THEN {<<>>} ELSE Perms(Keys(map))

\* package.rs 606-613, 625-632, 647-654: the member orders of one col row
KeyOrders(p, ts) ==
    LET ver == target_ver(p) IN
    [models : blob_orders(p.col_models, ver, models_map_for_col({}, p.decks, ts)),
     decks : blob_orders(p.col_decks, ver, decks_map_for_col(p)),
     dconf : blob_orders(p.col_dconf, ver, dconf_map_for_col(p, ver))]

TxOf(d, log, ids) ==
    [tables |-> d.tables, indexes |-> d.indexes, rows |-> d.rows, log |-> log,
     err |-> "", id_gen |-> 0, issued |-> ids]

DbOf(st) == [tables |-> st.tables, indexes |-> st.indexes, rows |-> st.rows]

\* package.rs 328-333: temporary database, transaction, timestamp
BeginWriteOpeningArchive ==
    /\ pc = "idle"
    /\ \E ts \in Timestamps : timestamp' = ts
    /\ pc' = "schema"
    /\ db' = EmptyDb
    /\ sql_log' = <<>>
    /\ issued' = <<>>
    /\ committed' = FALSE
    /\ zip' = <<Entry("collection.anki2", None)>>
    /\ media_left' = {}
    /\ result' = "none"
    /\ key_order' = NoOrder
    /\ UNCHANGED <<pkg, prev>>
BeginWrite ==
    /\ pc = "idle"
    /\ \E ts \in Timestamps : timestamp' = ts
    /\ pc' = "schema"
    /\ db' = EmptyDb
    /\ sql_log' = <<>>
    /\ issued' = <<>>
    /\ committed' = FALSE
    /\ zip' = <<>>
    /\ media_left' = {}
    /\ result' = "none"
    /\ key_order' = NoOrder
    /\ UNCHANGED <<pkg, prev>>

\* the outcome of a database step: an error returns Err and drops the
\* transaction, which rolls it back
DbStep(st, next) ==
    /\ sql_log' = st.log
    /\ issued' = st.issued
    /\ IF st.err # ""
       THEN /\ db' = EmptyDb
            /\ result' = "Err"
            /\ pc' = "done"
       ELSE /\ db' = DbOf(st)
            /\ result' = result
            /\ pc' = next
    /\ UNCHANGED <<pkg, timestamp, committed, zip, media_left, prev>>

\* package.rs 335
WriteSchemaAndColTable ==
    /\ pc = "schema"
    /\ LET st == write_schema_and_col_table(TxOf(db, sql_log, issued), pkg, timestamp) IN
       /\ DbStep(st, "content")
       /\ key_order' \in IF st.err # "" THEN {NoOrder} ELSE KeyOrders(pkg, timestamp)

\* package.rs 336
WriteDeckContentData ==
    /\ pc = "content"
    /\ DbStep(write_deck_content_data(TxOf(db, sql_log, issued), pkg, timestamp), "commit")
    /\ UNCHANGED key_order

\* package.rs 338-339
CommitSkipped ==
    /\ pc = "commit"
    /\ pc' = "zip_db"
    /\ UNCHANGED <<pkg, timestamp, db, sql_log, issued, committed, zip, media_left, result,
                   key_order, prev>>
Commit ==
    /\ pc = "commit"
    /\ committed' = TRUE
    /\ pc' = "zip_db"
    /\ UNCHANGED <<pkg, timestamp, db, sql_log, issued, zip, media_left, result, key_order, prev>>

\* package.rs 341-345
ZipDatabase ==
    /\ pc = "zip_db"
    /\ zip' = Append(zip, Entry("collection.anki2", Some(db)))
    /\ pc' = "zip_manifest"
    /\ UNCHANGED <<pkg, timestamp, db, sql_log, issued, committed, media_left, result,
                   key_order, prev>>

\* package.rs 347-372: a path without a file name panics in the closure
ZipManifest ==
    /\ pc = "zip_manifest"
    /\ IF \E i \in 1..Len(pkg.media_files) : display_name(pkg.media_files[i]) = None
       THEN /\ result' = "panic"
            /\ pc' = "done"
            /\ UNCHANGED <<zip, media_left>>
       ELSE /\ zip' = Append(zip, Entry("media", Some(to_string(media_map(pkg.media_files)))))
            /\ media_left' = 0..(Len(pkg.media_files) - 1)
            /\ pc' = "zip_media"
            /\ UNCHANGED result
    /\ UNCHANGED <<pkg, timestamp, db, sql_log, issued, committed, key_order, prev>>

\* package.rs 374-382: one entry per index, in the HashMap's iteration order
ZipMediaEntry ==
    /\ pc = "zip_media"
    /\ \E idx \in media_left :
          LET bytes == media_bytes(pkg.media_files[idx + 1]) IN
          /\ zip' = Append(zip, Entry(ToString(idx), bytes))
          /\ media_left' = media_left \ {idx}
          /\ IF bytes = None
             THEN result' = "Err" /\ pc' = "done"
             ELSE result' = result /\ pc' = pc
    /\ UNCHANGED <<pkg, timestamp, db, sql_log, issued, committed, key_order, prev>>

\* package.rs 383-384
ZipFinish ==
    /\ pc = "zip_media"
    /\ media_left = {}
    /\ result' = "Ok"
    /\ pc' = "done"
    /\ UNCHANGED <<pkg, timestamp, db, sql_log, issued, committed, zip, media_left,
                   key_order, prev>>

Write ==
    \/ BeginWrite
    \/ WriteSchemaAndColTable
    \/ WriteDeckContentData
    \/ Commit
    \/ ZipDatabase
    \/ ZipManifest
    \/ ZipMediaEntry
    \/ ZipFinish

Idle(p) ==
    /\ pkg = p
    /\ pc = "idle"
    /\ timestamp = 0
    /\ db = EmptyDb
    /\ sql_log = <<>>
    /\ issued = <<>>
    /\ committed = FALSE
    /\ zip = <<>>
    /\ media_left = {}
    /\ result = "none"
    /\ key_order = NoOrder
    /\ prev = None

----------------------------------------------------------------------------
(* Spec: decks, notes and cards with and without custom card ids *)

InlineMedia == MediaBytes("bytes-of-c", "a.png")

\* custom ids 1000 and 1001 are the first two automatic ids of a write at
\* 1.00025 s; -1 stands for a negative custom id
IdCards ==
    { Card_new(0, FALSE),
      [Card_new(1, FALSE) EXCEPT !.custom_card_id = Some(1000),
                                 !.review_history = <<RevlogEntry(51), RevlogEntry(52)>>],
      [Card_new(1, FALSE) EXCEPT !.custom_card_id = Some(1001)],
      [Card_new(1, FALSE) EXCEPT !.custom_card_id = Some(-1)] }

Init == Idle(new_from_memory(<<>>, <<InlineMedia>>))

PushNextDeck == PushDeck(Deck_new(Len(pkg.decks) + 1, "D", ""))

AddIdNote == \E cards \in SeqsUpTo(IdCards, MaxCards) : add_note(Note(7, cards))

SetLegacyVersion ==
    set_col_data(None, Some(11), None, None, None, None, None, None, None)

Next ==
    \/ PushNextDeck
    \/ AddIdNote
    \/ SetLegacyVersion
    \/ Write

Spec == Init /\ [][Next]_vars

----------------------------------------------------------------------------
(* SpecCards: one kind of deck, cards with and without scheduling data,    *)
(* written for the legacy version and for version 18                       *)

SchedCards ==
    { Card_new(0, FALSE),
      Card_new(0, TRUE),
      [Card_new(1, FALSE) EXCEPT !.queue = Some(1)],
      new_with_review_data(1, TRUE, 3, 1, 10, 20, 2500, 2, 2, 0) }

PushDeckD == PushDeck(Deck_new(1, "D", ""))

AddSchedNote == \E cards \in SeqsUpTo(SchedCards, MaxCards) : add_note(Note(7, cards))

SetVersion11or18 ==
    \E v \in {11, 18} : set_col_data(None, Some(v), None, None, None, None, None, None, None)

NextCards ==
    \/ PushDeckD
    \/ AddSchedNote
    \/ SetVersion11or18
    \/ Write

SpecCards == Init /\ [][NextCards]_vars

----------------------------------------------------------------------------
(* SpecCol: deck lists with and without deck 1, every target version, and  *)
(* overrides of the four JSON columns of the col row                       *)

ColDecks ==
    { Deck_new(1, "D", ""),
      Deck_new(2, "E", ""),
      [Deck_new(1, "F", "") EXCEPT !.notes = <<Note(7, <<Card_new(0, FALSE)>>)>>],
      [Deck_new(2, "G", "") EXCEPT !.notes = <<Note(8, <<Card_new(0, FALSE)>>)>>] }

JsonOverrides == {None, Some("{\"x\": 1}")}

PushColDeck == \E d \in ColDecks : PushDeck(d)

SetColJson ==
    \E v \in {None} \cup {Some(x) : x \in Versions} :
    \E conf \in JsonOverrides, models \in JsonOverrides,
       decks \in JsonOverrides, dconf \in JsonOverrides :
        set_col_data(None, v, None, None, None, conf, models, decks, dconf)

NextCol ==
    \/ PushColDeck
    \/ SetColJson
    \/ Write

SpecCol == Init /\ [][NextCol]_vars

----------------------------------------------------------------------------
(* SpecGraves: grave entries, with duplicates, for every target version    *)

Graves == {GraveEntry(1, 0, -1), GraveEntry(1, 0, 5), GraveEntry(2, 1, -1)}

AddGrave == \E g \in Graves : add_grave_entry(g)

SetVersion ==
    \E v \in Versions : set_col_data(None, Some(v), None, None, None, None, None, None, None)

NextGraves ==
    \/ AddGrave
    \/ SetVersion
    \/ Write

SpecGraves == Init /\ [][NextGraves]_vars

----------------------------------------------------------------------------
(* SpecMedia: packages constructed with every short list of media files    *)

MediaKinds ==
    { MediaPath(<<"a.png">>),
      MediaPath(<<"dir", "a.png">>),
      MediaPath(<<"missing.png">>),
      MediaPath(<<"dir", "..">>),
      MediaBytes("bytes-of-c", "a.png"),
      MediaBytes("bytes-of-d", "b.png") }

InitMedia == \E m \in SeqsUpTo(MediaKinds, MaxMedia) : Idle(new_from_memory(<<>>, m))

NextMedia ==
    \/ SetLegacyVersion
    \/ Write

SpecMedia == InitMedia /\ [][NextMedia]_vars

----------------------------------------------------------------------------
(* SpecSide: config, deck-config and tag entries, for every target version *)

ConfigKinds ==
    { ConfigEntry("conf", Bytes("{\"curDeck\": 2}", TRUE, TRUE)),
      ConfigEntry("sortType", Bytes("\"noteFld\"", TRUE, TRUE)) }

\* deck-config entries: two with a JSON blob (ids 2 and 1), one whose blob
\* is not JSON
DeckConfigKinds ==
    { DeckConfigEntry(2, Bytes("{\"id\": 2}", TRUE, TRUE)),
      DeckConfigEntry(1, Bytes("{\"id\": 1, \"name\": \"mine\"}", TRUE, TRUE)),
      DeckConfigEntry(3, Bytes("not json", TRUE, FALSE)) }

AddConfig == \E e \in ConfigKinds : add_config_entry(e)
AddDeckConfig == \E e \in DeckConfigKinds : add_deck_config_entry(e)
AddTag == add_tag_entry(TagEntry("t"))

NextSide ==
    \/ AddConfig
    \/ AddDeckConfig
    \/ AddTag
    \/ SetVersion
    \/ Write

SpecSide == Init /\ [][NextSide]_vars

----------------------------------------------------------------------------
(* SpecRevlog: cards with review histories: in ascending and descending    *)
(* order of id, with an id twice in one history, and on a custom card id   *)

RevlogCards ==
    { [Card_new(0, FALSE) EXCEPT !.review_history = <<RevlogEntry(51), RevlogEntry(52)>>],
      [Card_new(0, FALSE) EXCEPT !.review_history = <<RevlogEntry(52), RevlogEntry(51)>>],
      [Card_new(0, FALSE) EXCEPT !.review_history = <<RevlogEntry(53), RevlogEntry(53)>>],
      [Card_new(1, FALSE) EXCEPT !.custom_card_id = Some(2000),
                                 !.review_history = <<RevlogEntry(54)>>] }

AddRevlogNote == \E cards \in SeqsUpTo(RevlogCards, MaxCards) : add_note(Note(7, cards))

NextRevlog ==
    \/ PushDeckD
    \/ AddRevlogNote
    \/ SetLegacyVersion
    \/ Write

SpecRevlog == Init /\ [][NextRevlog]_vars

----------------------------------------------------------------------------
(* SpecModels: decks whose notes share models within a deck and across     *)
(* decks                                                                   *)

OneCard == <<Card_new(0, FALSE)>>

ModelDecks ==
    { [Deck_new(1, "A", "") EXCEPT !.notes = <<Note(7, OneCard)>>],
      [Deck_new(2, "B", "") EXCEPT !.notes = <<Note(7, OneCard)>>],
      [Deck_new(2, "C", "") EXCEPT !.notes = <<Note(8, OneCard), Note(7, OneCard)>>],
      [Deck_new(3, "D", "") EXCEPT !.notes = <<Note(8, OneCard)>>],
      [Deck_new(1, "E", "") EXCEPT !.notes = <<Note(7, OneCard), Note(7, OneCard)>>],
      Deck_new(4, "F", "") }

PushModelDeck == \E d \in ModelDecks : PushDeck(d)

NextModels ==
    \/ PushModelDeck
    \/ SetLegacyVersion
    \/ Write

SpecModels == Init /\ [][NextModels]_vars

----------------------------------------------------------------------------
(* SpecColTimes: overrides of the scalar columns of the col row            *)

SetColScalars ==
    \E crt \in {None, Some(5)}, ver \in {None, Some(11)}, scm \in {None, Some(6)},
       usn \in {None, Some(3)}, ls \in {None, Some(9)} :
        set_col_data(crt, ver, scm, usn, ls, None, None, None, None)

NextColTimes ==
    \/ PushNextDeck
    \/ SetColScalars
    \/ Write

SpecColTimes == Init /\ [][NextColTimes]_vars

----------------------------------------------------------------------------
(* SpecOverrides: set_col_data called again and again, with every override *)
(* given in one call and left out in another, on packages that hold decks, *)
(* config entries and grave entries                                        *)

\* argument lists <<crt, ver, scm, usn, ls, conf, models, decks, dconf>>
ColArgs ==
    { <<None, None, None, None, None, None, None, None, None>>,
      <<Some(5), Some(11), Some(6), Some(3), Some(9),
        Some("{\"c\": 1}"), Some("{\"m\": 1}"), Some("{\"d\": 1}"), Some("{\"dc\": 1}")>>,
      <<Some(5), None, Some(6), None, Some(9), None, Some("{\"m\": 1}"), None, Some("{\"dc\": 1}")>>,
      <<None, Some(11), None, Some(3), None, Some("{\"c\": 1}"), None, Some("{\"d\": 1}"), None>> }

SetColArgs ==
    \E a \in ColArgs : set_col_data(a[1], a[2], a[3], a[4], a[5], a[6], a[7], a[8], a[9])

NextOverrides ==
    \/ PushDeckD
    \/ AddConfig
    \/ AddGrave
    \/ SetColArgs
    \/ Write

SpecOverrides == Init /\ [][NextOverrides]_vars

----------------------------------------------------------------------------
(* SpecConfigs: config entries that share a key and differ in value, for   *)
(* every target version                                                    *)

SameKeyConfigKinds ==
    { ConfigEntry("conf", Bytes("{\"curDeck\": 1}", TRUE, TRUE)),
      ConfigEntry("conf", Bytes("{\"curDeck\": 2}", TRUE, TRUE)),
      ConfigEntry("tags", Bytes("{\"a\": 0}", TRUE, TRUE)),
      ConfigEntry("tags", Bytes("{\"b\": 0}", TRUE, TRUE)) }

AddSameKeyConfig == \E e \in SameKeyConfigKinds : add_config_entry(e)

NextConfigs ==
    \/ AddSameKeyConfig
    \/ SetVersion
    \/ Write

SpecConfigs == Init /\ [][NextConfigs]_vars

----------------------------------------------------------------------------
(* What a write was given and what it wrote, for the properties below *)

Distinct(s) == \A i, j \in 1..Len(s) : i # j => s[i] # s[j]

RECURSIVE Concat(_)
Concat(ss) == IF ss = <<>> THEN <<>> ELSE Head(ss) \o Concat(Tail(ss))

\* the notes and cards of the package in the order they are written
NoteItems(note, deck_id) ==
    <<[kind |-> "note", card |-> <<>>, did |-> deck_id]>>
    \o [i \in 1..Len(note.cards) |-> [kind |-> "card", card |-> <<note.cards[i]>>, did |-> deck_id]]

DeckItems(deck) == Concat([i \in 1..Len(deck.notes) |-> NoteItems(deck.notes[i], deck.id)])
Items(p) == Concat([i \in 1..Len(p.decks) |-> DeckItems(p.decks[i])])

IsAuto(item) == item.kind = "note" \/ item.card[1].custom_card_id = None

CountBefore(items, j, kind) == Cardinality({i \in 1..(j - 1) : items[i].kind = kind})
AutoBefore(items, j) == Cardinality({i \in 1..(j - 1) : IsAuto(items[i])})

\* the database holds every row of the database phase
DatabaseWritten ==
    \/ pc \in {"commit", "zip_db", "zip_manifest", "zip_media"}
    \/ pc = "done" /\ committed

TableRows(t) == IF t \in DOMAIN db.rows THEN db.rows[t] ELSE <<>>

\* the row written for item j: the k-th notes row for the k-th note, the
\* k-th cards row for the k-th card
RowOf(items, j) ==
    TableRows(IF items[j].kind = "note" THEN "notes" ELSE "cards")[CountBefore(items, j, items[j].kind) + 1]

RowIds(t) == [i \in 1..Len(TableRows(t)) |-> TableRows(t)[i].id]

Succeeded == pc = "done" /\ result = "Ok"

----------------------------------------------------------------------------
(* C1: after a successful write all resolved ids, note ids and card ids    *)
(* taken together, are pairwise distinct.                                  *)
(* As stated this fails: a custom card id is not reconciled with the       *)
(* allocator and may equal the id of a note.                               *)
C1_AllIdsDistinct ==
    Succeeded => Distinct(RowIds("notes") \o RowIds("cards"))

(* C1, amended: after a successful write the automatically assigned ids    *)
(* (all note ids and the ids of cards without custom_card_id) are pairwise *)
(* distinct, and all card ids are pairwise distinct.                       *)
C1_AutoIdsDistinct ==
    Succeeded =>
        LET items == Items(pkg)
            auto == {j \in 1..Len(items) : IsAuto(items[j])}
        IN /\ \A i, j \in auto : i # j => RowOf(items, i).id # RowOf(items, j).id
           /\ Distinct(RowIds("cards"))
           /\ Distinct(RowIds("notes"))

C1_Witness ==
    /\ Succeeded
    /\ Len(TableRows("notes")) >= 2
    /\ \E j \in 1..Len(Items(pkg)) : ~IsAuto(Items(pkg)[j])
    /\ \E j \in 1..Len(Items(pkg)) : Items(pkg)[j].kind = "card" /\ IsAuto(Items(pkg)[j])

\* the review history entries of the package in the order they are written,
\* each with the index of the item of its card
HistoryItems(items) ==
    Concat([j \in 1..Len(items) |->
        IF items[j].kind = "note" THEN <<>>
        ELSE [i \in 1..Len(items[j].card[1].review_history) |->
                 [owner |-> j, entry |-> items[j].card[1].review_history[i]]]])

AutoItems(items) == {j \in 1..Len(items) : IsAuto(items[j])}
CustomItems(items) == {j \in 1..Len(items) : ~IsAuto(items[j])}

\* the id the allocator would hand out next after the first j items
NextAutoAfter(items, j) == TimestampMillis(timestamp) + AutoBefore(items, j + 1)

----------------------------------------------------------------------------
(* C2: a card with a custom_card_id gets exactly that id in its cards row  *)
(* and in each of its revlog rows; writing it does not advance the         *)
(* allocator: the allocator has handed out one id per note and per card    *)
(* without custom id, the automatic id assigned after a custom card is the *)
(* one that was next before it, and no automatic id repeats an earlier     *)
(* automatic id.                                                           *)
C2_CustomIdVerbatim ==
    DatabaseWritten =>
        LET items == Items(pkg)
            hist == HistoryItems(items)
        IN /\ \A j \in CustomItems(items) :
                 RowOf(items, j).id = items[j].card[1].custom_card_id[1]
           /\ Len(TableRows("revlog")) = Len(hist)
           /\ \A k \in 1..Len(hist) :
                 /\ TableRows("revlog")[k].id = hist[k].entry.id
                 /\ ~IsAuto(items[hist[k].owner]) =>
                       TableRows("revlog")[k].cid = items[hist[k].owner].card[1].custom_card_id[1]
           /\ Len(issued) = Cardinality(AutoItems(items))
           /\ \A j \in CustomItems(items) : \A k \in AutoItems(items) :
                 (k > j /\ \A m \in (j + 1)..(k - 1) : ~IsAuto(items[m])) =>
                     /\ RowOf(items, k).id = NextAutoAfter(items, j - 1)
                     /\ \A m \in AutoItems(items) : m < k => RowOf(items, m).id # RowOf(items, k).id

C2_Witness ==
    /\ Succeeded
    /\ \E j \in CustomItems(Items(pkg)) :
          /\ Items(pkg)[j].card[1].review_history # <<>>
          /\ \E k \in AutoItems(Items(pkg)) : k > j

----------------------------------------------------------------------------
(* C3: the allocator of a write starts at floor(timestamp * 1000) and is   *)
(* shared by all decks: the ids it hands out are consecutive from that     *)
(* value, and the notes and the cards without custom id carry them in the  *)
(* order decks, notes and cards are written, across deck boundaries.       *)
C3_AutoIdsConsecutive ==
    /\ \A k \in 1..Len(issued) : issued[k] = TimestampMillis(timestamp) + k - 1
    /\ DatabaseWritten =>
          LET items == Items(pkg) IN
          /\ Len(issued) = Cardinality(AutoItems(items))
          /\ \A j \in AutoItems(items) : RowOf(items, j).id = issued[AutoBefore(items, j) + 1]

C3_Witness ==
    /\ Succeeded
    /\ Len(pkg.decks) >= 2
    /\ \A i \in 1..Len(pkg.decks) : pkg.decks[i].notes # <<>>
    /\ Len(issued) >= 4
    /\ issued[1] * 4 # timestamp

CardItems(items) == {j \in 1..Len(items) : items[j].kind = "card"}

----------------------------------------------------------------------------
(* C4: the queue column of a card's row is -1 when the card is suspended,  *)
(* whatever its queue field holds, and otherwise the supplied queue, or 0  *)
(* when none was supplied.                                                 *)
C4_SuspendedQueue ==
    DatabaseWritten =>
        LET items == Items(pkg) IN
        /\ Len(TableRows("cards")) = Cardinality(CardItems(items))
        /\ \A j \in CardItems(items) :
              LET card == items[j].card[1] IN
              /\ card.suspend => RowOf(items, j).queue = -1
              /\ (~card.suspend /\ card.queue # None) => RowOf(items, j).queue = card.queue[1]
              /\ (~card.suspend /\ card.queue = None) => RowOf(items, j).queue = 0

C4_Witness ==
    /\ Succeeded
    /\ \E j \in CardItems(Items(pkg)) :
          Items(pkg)[j].card[1].suspend /\ Items(pkg)[j].card[1].queue = Some(2)
    /\ \E j \in CardItems(Items(pkg)) :
          ~Items(pkg)[j].card[1].suspend /\ Items(pkg)[j].card[1].queue = None

----------------------------------------------------------------------------
(* C5: a write for schema version 18 (the version of a package without a   *)
(* version override) of a package with one deck of id 1 holding one card   *)
(* made by Card::new(0, false) ends without error, with exactly one cards  *)
(* row whose queue, type, ivl, factor, reps, lapses, left, odue and odid   *)
(* are 0 and whose usn is -1, and a col row whose ver is 18.               *)
(* The write does not end well: APKG_SCHEMA creates graves, and the        *)
(* CREATE TABLE graves that follows is an error.                           *)
C5_Scenario ==
    /\ target_ver(pkg) = 18
    /\ Len(pkg.decks) = 1
    /\ pkg.decks[1].id = 1
    /\ Len(pkg.decks[1].notes) = 1
    /\ pkg.decks[1].notes[1].cards = <<Card_new(0, FALSE)>>

C5_DefaultCardAtVersion18 ==
    (pc = "done" /\ C5_Scenario) =>
        /\ result = "Ok"
        /\ Len(TableRows("cards")) = 1
        /\ LET r == TableRows("cards")[1] IN
              /\ r.queue = 0 /\ r.type = 0 /\ r.ivl = 0 /\ r.factor = 0 /\ r.reps = 0
              /\ r.lapses = 0 /\ r.left = 0 /\ r.odue = 0 /\ r.odid = 0 /\ r.usn = -1
        /\ Len(TableRows("col")) = 1
        /\ TableRows("col")[1].ver = 18

----------------------------------------------------------------------------
(* C6: with two grave entries of the same (oid, gtype) in the package, a   *)
(* write for version 18 or later fails with a database error at the        *)
(* duplicate insert, and a write for any version below 18 inserts both     *)
(* grave rows and succeeds.                                                *)
(* For versions 12 to 17 the write fails too, and from version 18 it fails *)
(* before any insert: CREATE TABLE graves runs on a database in which      *)
(* APKG_SCHEMA already created graves.                                     *)
DuplicateGraves(p) ==
    /\ Len(p.graves) = 2
    /\ p.graves[1].oid = p.graves[2].oid
    /\ p.graves[1].gtype = p.graves[2].gtype

C6_DuplicateGraves ==
    (pc = "done" /\ DuplicateGraves(pkg)) =>
        IF target_ver(pkg) >= 18
        THEN /\ result = "Err"
             /\ Last(sql_log) = [op |-> "insert", table |-> "graves"]
             /\ Cardinality({i \in 1..Len(sql_log) : sql_log[i] = [op |-> "insert", table |-> "graves"]}) = 2
        ELSE /\ result = "Ok"
             /\ Len(TableRows("graves")) = 2

----------------------------------------------------------------------------
(* C7: for every write whose target version is 16 or later the conf,       *)
(* models, decks and dconf columns of the col row are each the string "{}",*)
(* whatever the package holds and whatever set_col_data was given.         *)
(* No such write produces a col row: it fails at CREATE TABLE graves (C5,  *)
(* C6); and json_blob lets an override of set_col_data take precedence     *)
(* over the "{}" of version 16.                                            *)
C7_EmptyJsonFromVersion16 ==
    (pc = "done" /\ target_ver(pkg) >= 16) =>
        /\ Len(TableRows("col")) = 1
        /\ LET r == TableRows("col")[1] IN
              /\ r.conf = Lit("{}")
              /\ r.models = Lit("{}")
              /\ r.decks = Lit("{}")
              /\ r.dconf = Lit("{}")

----------------------------------------------------------------------------
(* C8: after every successful write, for every target version and every    *)
(* list of decks, the deck set written to the col row holds a deck with    *)
(* id 1: the caller's deck of id 1 when there is one, and otherwise the    *)
(* built-in deck named "Default".                                          *)
(* As stated this fails: a decks override of set_col_data is written in    *)
(* place of the deck set.                                                  *)
CallerDeck1(p) == {i \in 1..Len(p.decks) : p.decks[i].id = 1}

HoldsDeck1(blob, p) ==
    \E e \in blob.obj :
        /\ e.k = "1"
        /\ e.v.id = 1
        /\ \A f \in blob.obj : f.k = "1" => f = e
        /\ IF CallerDeck1(p) = {}
           THEN e.v.name = "Default"
           ELSE LET last == CHOOSE i \in CallerDeck1(p) : \A j \in CallerDeck1(p) : j <= i
                IN e.v.name = p.decks[last].name /\ e.v.desc = p.decks[last].description

C8_DefaultDeckAlways ==
    Succeeded =>
        /\ Len(TableRows("col")) = 1
        /\ HoldsDeck1(TableRows("col")[1].decks, pkg)

(* C8, amended: after every successful write with a target version below   *)
(* 16 and no decks override, the decks column of the col row holds exactly *)
(* one deck with id 1: the caller's deck of id 1 (the last one supplied)   *)
(* when there is one, and otherwise the built-in deck named "Default";     *)
(* with a decks override the column is the override.                       *)
C8_DefaultDeckWithoutOverride ==
    Succeeded =>
        /\ Len(TableRows("col")) = 1
        /\ (target_ver(pkg) < 16 /\ pkg.col_decks = None) =>
              HoldsDeck1(TableRows("col")[1].decks, pkg)
        /\ pkg.col_decks # None => TableRows("col")[1].decks = Lit(pkg.col_decks[1])

C8_Witness ==
    /\ Succeeded
    /\ pkg.col_decks = None
    /\ Len(pkg.decks) = 2
    /\ CallerDeck1(pkg) = {}

----------------------------------------------------------------------------
(* C9: every successful write leaves exactly one row in the col table; the *)
(* row is there from the end of write_schema_and_col_table on, one INSERT  *)
(* INTO col is executed, and no later step adds a row or removes it.       *)
ColInserts == {i \in 1..Len(sql_log) : sql_log[i] = [op |-> "insert", table |-> "col"]}

C9_OneColRow ==
    /\ (pc = "content" \/ DatabaseWritten) =>
          /\ Len(TableRows("col")) = 1
          /\ Cardinality(ColInserts) = 1
    /\ Succeeded => \E i \in 1..Len(zip) :
          /\ zip[i].name = "collection.anki2"
          /\ Len(zip[i].data[1].rows["col"]) = 1
    /\ Cardinality(ColInserts) <= 1

C9_Witness ==
    /\ Succeeded
    /\ Len(pkg.decks) = 2
    /\ pkg.col_conf # None

----------------------------------------------------------------------------
(* C10: after a successful write of a package with n media files the       *)
(* manifest has exactly the n keys "0" .. "n-1", key i maps to the display *)
(* name of the i-th media file (the last component of its path, or the     *)
(* name given with inline bytes), the numbered archive entries are named   *)
(* by exactly the manifest keys, and entry i holds the bytes of the i-th   *)
(* media file; also when two media files have the same display name.       *)
Decimal == <<"0", "1", "2", "3", "4", "5", "6", "7", "8", "9">>

ExpectedName(m) == IF m.kind = "Path" THEN m.path[Len(m.path)] ELSE m.name
ExpectedBytes(m) == IF m.kind = "Path" THEN Files[m.path] ELSE m.bytes

Numbered == {i \in 1..Len(zip) : zip[i].name \notin {"collection.anki2", "media"}}

C10_MediaManifest ==
    Succeeded =>
        LET n == Len(pkg.media_files)
            manifest == zip[2].data[1]
        IN /\ zip[2].name = "media"
           /\ n = 0 => manifest = Lit("{}")
           /\ Cardinality(manifest.obj) = n
           /\ {e.k : e \in manifest.obj} = {Decimal[i + 1] : i \in 0..(n - 1)}
           /\ \A i \in 0..(n - 1) :
                 [k |-> Decimal[i + 1], v |-> ExpectedName(pkg.media_files[i + 1])] \in manifest.obj
           /\ Cardinality(Numbered) = n
           /\ {zip[i].name : i \in Numbered} = {e.k : e \in manifest.obj}
           /\ \A i \in 0..(n - 1) : \E j \in Numbered :
                 /\ zip[j].name = Decimal[i + 1]
                 /\ zip[j].data = Some(ExpectedBytes(pkg.media_files[i + 1]))

C10_Witness ==
    /\ Succeeded
    /\ Len(pkg.media_files) = 2
    /\ pkg.media_files[1].kind = "Path"
    /\ display_name(pkg.media_files[1]) = display_name(pkg.media_files[2])
    /\ media_bytes(pkg.media_files[1]) # media_bytes(pkg.media_files[2])
    /\ zip[3].name = "1"

----------------------------------------------------------------------------
(* C11: in every write the archive entries are started in this order:      *)
(* first "collection.anki2" holding the committed database, then "media"   *)
(* holding the manifest, then the numbered media entries; an entry is      *)
(* started only after the transaction has committed, and a numbered entry  *)
(* only after the manifest entry has been written.                         *)
C11_ArchiveOrder ==
    /\ zip # <<>> => committed
    /\ \A i \in 1..Len(zip) :
          /\ zip[i].name = "collection.anki2" <=> i = 1
          /\ zip[i].name = "media" <=> i = 2
    /\ Len(zip) >= 1 => zip[1].data = Some(db)
    /\ Len(zip) >= 2 => zip[2].data = Some(to_string(media_map(pkg.media_files)))
    /\ \A i \in 3..Len(zip) :
          \E idx \in 0..(Len(pkg.media_files) - 1) : zip[i].name = Decimal[idx + 1]

C11_Witness ==
    /\ Succeeded
    /\ Len(zip) = 4
    /\ db.rows["col"] # <<>>

----------------------------------------------------------------------------
(* C12: every failure during a write stops it at that step and is returned *)
(* to the caller as Err: no write ends by a panic, also when a media path  *)
(* has no final file-name component.                                       *)
(* A media path without a file name ends the write by the panic of         *)
(* .expect("Should always have a filename") in the manifest closure.       *)
C12_FailuresReturnErr ==
    pc = "done" =>
        /\ result \in {"Ok", "Err"}
        /\ (\E i \in 1..Len(pkg.media_files) : display_name(pkg.media_files[i]) = None)
              => result = "Err"

----------------------------------------------------------------------------
(* C13: the table set of a write follows the one target version: below 12  *)
(* only col, notes, cards, revlog and graves exist at the end of the write *)
(* and no side-table entry is inserted; from 12 on decks, deck_config,     *)
(* notetypes, templates, fields, config and tags exist too and every       *)
(* supplied config, deck-config and tag entry is inserted; graves has the  *)
(* columns (usn, oid, type) below 18 and (oid, type, usn) from 18 on.      *)
(* From version 12 on the write ends at CREATE TABLE graves with no table  *)
(* left (C5), and APKG_SCHEMA defines no table tags.                       *)
LegacyTables == {"col", "notes", "cards", "revlog", "graves"}
SideTables == {"decks", "deck_config", "notetypes", "templates", "fields", "config", "tags"}

C13_TableSetByVersion ==
    pc = "done" =>
        LET ver == target_ver(pkg) IN
        /\ ver < 12 =>
              /\ DOMAIN db.tables = LegacyTables
              /\ \A i \in 1..Len(sql_log) :
                    sql_log[i].op = "insert" => sql_log[i].table \notin SideTables
        /\ ver >= 12 =>
              /\ LegacyTables \cup SideTables \subseteq DOMAIN db.tables
              /\ Len(TableRows("config")) = Len(pkg.configs)
              /\ Len(TableRows("tags")) = Len(pkg.tags)
              /\ \A i \in 1..Len(pkg.deck_configs) :
                    \E j \in 1..Len(TableRows("deck_config")) :
                        TableRows("deck_config")[j].id = pkg.deck_configs[i].id
        /\ "graves" \in DOMAIN db.tables
        /\ db.tables["graves"].cols =
              IF ver < 18 THEN <<"usn", "oid", "type">> ELSE <<"oid", "type", "usn">>

----------------------------------------------------------------------------
(* C14: for every write with a target version below 16, versions below 12  *)
(* included, and no dconf override, the dconf column of the col row is an  *)
(* object with the built-in default under "1" and one member per supplied  *)
(* deck-config entry (with a JSON blob), keyed by the entry's id.          *)
(* Below version 12 the deck-config entries are not merged: the loop that  *)
(* merges them is inside the block of version 12 and later; and for        *)
(* versions 12 to 15 the write fails (C5).                                 *)
C14_DconfHoldsDeckConfigs ==
    (pc = "done" /\ target_ver(pkg) < 16 /\ pkg.col_dconf = None) =>
        /\ Len(TableRows("col")) = 1
        /\ LET obj == TableRows("col")[1].dconf.obj IN
              /\ contains_key(obj, "1")
              /\ \A i \in 1..Len(pkg.deck_configs) :
                    pkg.deck_configs[i].config_blob.json =>
                        contains_key(obj, ToString(pkg.deck_configs[i].id))

----------------------------------------------------------------------------
----------------------------------------------------------------------------
(* C15: in every write the col row is inserted only after every note, card *)
(* and revlog row: no notes, cards or revlog row is inserted after the col *)
(* row.                                                                    *)
(* write_schema_and_col_table, which ends with the INSERT INTO col, runs   *)
(* before write_deck_content_data.                                         *)
ContentTables == {"notes", "cards", "revlog"}

C15_ColRowLast ==
    \A i, j \in 1..Len(sql_log) :
        (i < j /\ sql_log[i] = [op |-> "insert", table |-> "col"]) =>
            ~(sql_log[j].op = "insert" /\ sql_log[j].table \in ContentTables)

----------------------------------------------------------------------------
(* C20: when a step of the database phase fails, no archive entry has been *)
(* started and the writer has received nothing: during the database phase  *)
(* and after a write that ended before its commit the archive is empty.    *)
C20_NoArchiveBeforeCommit ==
    /\ pc \in {"schema", "content", "commit"} => zip = <<>>
    /\ (pc = "done" /\ ~committed) => (result = "Err" /\ zip = <<>>)

C20_Witness ==
    /\ pc = "done"
    /\ result = "Err"
    /\ ~committed
    /\ Len(issued) >= 2
    /\ \E i \in 1..Len(sql_log) : sql_log[i] = [op |-> "insert", table |-> "col"]

----------------------------------------------------------------------------
(* C17: Card::write_to_db inserts the cards row and then one revlog row    *)
(* per entry of review_history, in list order, each with cid equal to the  *)
(* resolved id of the card (custom or automatic); the entries are not      *)
(* sorted or deduplicated, and when a revlog insert fails, as for two      *)
(* entries with the same id in one write, the whole write fails.           *)
ExpectedContentLog(items) ==
    Concat([j \in 1..Len(items) |->
        IF items[j].kind = "note" THEN <<"notes">>
        ELSE <<"cards">> \o [i \in 1..Len(items[j].card[1].review_history) |-> "revlog"]])

ContentLog ==
    LET ins == SelectSeq(sql_log, LAMBDA e : e.op = "insert" /\ e.table \in ContentTables)
    IN [i \in 1..Len(ins) |-> ins[i].table]

RevlogIds(items) == [k \in 1..Len(HistoryItems(items)) |-> HistoryItems(items)[k].entry.id]

CustomIdsFree(items) ==
    \A j \in CustomItems(items) :
        /\ items[j].card[1].custom_card_id[1] >= 0
        /\ \A k \in CardItems(items) \ {j} :
              items[k].card[1].custom_card_id # items[j].card[1].custom_card_id

C17_RevlogRowsInOrder ==
    LET items == Items(pkg)
        hist == HistoryItems(items)
    IN /\ DatabaseWritten =>
             /\ ContentLog = ExpectedContentLog(items)
             /\ Len(TableRows("revlog")) = Len(hist)
             /\ \A k \in 1..Len(hist) :
                   /\ TableRows("revlog")[k].id = hist[k].entry.id
                   /\ TableRows("revlog")[k].cid = RowOf(items, hist[k].owner).id
       /\ (pc = "done" /\ target_ver(pkg) < 12 /\ CustomIdsFree(items) /\ ~Distinct(RevlogIds(items))) =>
             /\ result = "Err"
             /\ Last(sql_log) = [op |-> "insert", table |-> "revlog"]
             /\ db = EmptyDb
             /\ zip = <<>>

C17_Witness ==
    /\ Succeeded
    /\ \E j \in AutoItems(Items(pkg)) :
          /\ Items(pkg)[j].kind = "card"
          /\ Items(pkg)[j].card[1].review_history = <<RevlogEntry(52), RevlogEntry(51)>>
    /\ \E j \in CustomItems(Items(pkg)) : Items(pkg)[j].card[1].review_history # <<>>

C17_WitnessDuplicate ==
    /\ pc = "done"
    /\ result = "Err"
    /\ target_ver(pkg) < 12
    /\ Len(TableRows("revlog")) = 0
    /\ Cardinality({i \in 1..Len(sql_log) : sql_log[i] = [op |-> "insert", table |-> "revlog"]}) = 3

----------------------------------------------------------------------------
(* C18: in one write every distinct model id referenced by a note is       *)
(* converted by to_model_db_entry exactly once, with the id of the first   *)
(* deck, in package order, that holds a note of that model; the models     *)
(* map written to the col row has exactly one entry per distinct model id. *)
ModelIdsOf(p) ==
    UNION {{p.decks[i].notes[n].model.id : n \in 1..Len(p.decks[i].notes)} :
              i \in 1..Len(p.decks)}

HoldsModel(deck, id) == \E n \in 1..Len(deck.notes) : deck.notes[n].model.id = id

FirstDeckOf(p, id) ==
    p.decks[CHOOSE i \in 1..Len(p.decks) :
                /\ HoldsModel(p.decks[i], id)
                /\ \A j \in 1..(i - 1) : ~HoldsModel(p.decks[j], id)].id

C18_ModelsConvertedOnce ==
    (Succeeded /\ target_ver(pkg) < 16 /\ pkg.col_models = None) =>
        LET calls == model_conversions(<<>>, pkg.decks)
            obj == TableRows("col")[1].models.obj
        IN /\ Len(calls) = Cardinality(ModelIdsOf(pkg))
           /\ \A id \in ModelIdsOf(pkg) :
                 Cardinality({i \in 1..Len(calls) : calls[i].id = id}) = 1
           /\ Cardinality(obj) = Cardinality(ModelIdsOf(pkg))
           /\ \A id \in ModelIdsOf(pkg) :
                 /\ [id |-> id, did |-> FirstDeckOf(pkg, id)] \in
                        {calls[i] : i \in 1..Len(calls)}
                 /\ [k |-> ToString(id),
                     v |-> to_model_db_entry([id |-> id], timestamp, FirstDeckOf(pkg, id))] \in obj

C18_Witness ==
    /\ Succeeded
    /\ Len(pkg.decks) = 2
    /\ pkg.decks[1].id # pkg.decks[2].id
    /\ HoldsModel(pkg.decks[1], 7)
    /\ HoldsModel(pkg.decks[2], 7)
    /\ HoldsModel(pkg.decks[2], 8)

----------------------------------------------------------------------------
(* C19: the col row of every write has crt = the crt override or           *)
(* floor(timestamp), mod = floor(timestamp * 1000) whatever was            *)
(* overridden, scm = the scm override or mod, ver = the ver override or    *)
(* 18, dty = 0, usn = the override or -1, ls = the override or 0.          *)
(* Without a ver override the target version is 18 and the write ends at   *)
(* CREATE TABLE graves (C5): there is no col row.                          *)
AfterSchemaStep == pc \in {"content", "commit", "zip_db", "zip_manifest", "zip_media", "done"}

ColScalarsOf(r) ==
    /\ r.crt = IF pkg.col_crt = None THEN timestamp \div 4000 ELSE pkg.col_crt[1]
    /\ r.mod = timestamp \div 4
    /\ r.scm = IF pkg.col_scm = None THEN timestamp \div 4 ELSE pkg.col_scm[1]
    /\ r.ver = IF pkg.col_ver = None THEN 18 ELSE pkg.col_ver[1]
    /\ r.dty = 0
    /\ r.usn = IF pkg.col_usn = None THEN -1 ELSE pkg.col_usn[1]
    /\ r.ls = IF pkg.col_ls = None THEN 0 ELSE pkg.col_ls[1]

C19_ColRowScalars ==
    AfterSchemaStep =>
        /\ Len(TableRows("col")) = 1
        /\ ColScalarsOf(TableRows("col")[1])

----------------------------------------------------------------------------
(* C21: set_col_data replaces all nine overrides at once and changes       *)
(* nothing else: after a call the overrides are the arguments of that      *)
(* call, an argument None clearing what an earlier call set, and the       *)
(* decks, the media files and every side-table list are as before.         *)
Overrides(p) ==
    <<p.col_crt, p.col_ver, p.col_scm, p.col_usn, p.col_ls,
      p.col_conf, p.col_models, p.col_decks, p.col_dconf>>

Contents(p) ==
    <<p.decks, p.media_files, p.configs, p.deck_configs, p.deck_infos,
      p.notetypes, p.field_entries, p.template_entries, p.graves, p.tags>>

C21_SetColDataReplacesAll ==
    [][ /\ \A a \in ColArgs :
              set_col_data(a[1], a[2], a[3], a[4], a[5], a[6], a[7], a[8], a[9]) =>
                  /\ Overrides(pkg') = a
                  /\ Contents(pkg') = Contents(pkg)
        /\ Overrides(pkg') # Overrides(pkg) =>
              /\ Overrides(pkg') \in ColArgs
              /\ Contents(pkg') = Contents(pkg)
              /\ WriteUnchanged
      ]_vars

C21_Witness ==
    /\ pc = "idle"
    /\ Overrides(pkg) = <<Some(5), None, Some(6), None, Some(9), None, Some("{\"m\": 1}"), None, Some("{\"dc\": 1}")>>
    /\ pkg.decks # <<>>
    /\ pkg.configs # <<>>
    /\ pkg.graves # <<>>

----------------------------------------------------------------------------
(* C22: with two config entries of the same key, a target version in       *)
(* 12..15 and no conf override, the config table ends with one row for the *)
(* key, holding the value of the entry added last, while the conf and tags *)
(* columns of the col row hold the value of the entry added first with key *)
(* "conf" and "tags".                                                      *)
(* A write for a version in 12..15 ends at CREATE TABLE graves (C5): there *)
(* is neither a config table nor a col row.                                *)
SameKeyConfigs(p) ==
    /\ Len(p.configs) = 2
    /\ p.configs[1].key = p.configs[2].key
    /\ p.configs[1].val # p.configs[2].val

C22_SameKeyConfigs ==
    (pc = "done" /\ target_ver(pkg) \in 12..15 /\ pkg.col_conf = None /\ SameKeyConfigs(pkg)) =>
        LET key == pkg.configs[1].key
            rows == TableRows("config")
            of_key == {i \in 1..Len(rows) : rows[i].key = key}
        IN /\ Cardinality(of_key) = 1
           /\ \A i \in of_key : rows[i].val = pkg.configs[2].val
           /\ Len(TableRows("col")) = 1
           /\ key = "conf" => TableRows("col")[1].conf = Lit(pkg.configs[1].val.text)
           /\ key = "tags" => TableRows("col")[1].tags = Lit(pkg.configs[1].val.text)

----------------------------------------------------------------------------
(* SpecRewrite: a package is built, then written any number of times; the  *)
(* caller keeps what each write left                                       *)

RewriteDecks ==
    { Deck_new(1, "D", ""),
      [Deck_new(2, "E", "") EXCEPT !.notes = <<Note(7, <<Card_new(0, FALSE)>>)>>],
      [Deck_new(3, "F", "") EXCEPT !.notes =
          <<Note(8, <<[Card_new(0, FALSE) EXCEPT !.custom_card_id = Some(1000),
                                                 !.review_history = <<RevlogEntry(51)>>]>>)>>] }

PushRewriteDeck == prev = None /\ \E d \in RewriteDecks : PushDeck(d)

SetLegacyVersionOnce == prev = None /\ SetLegacyVersion

Outcome ==
    [pkg |-> pkg, timestamp |-> timestamp, db |-> db, key_order |-> key_order,
     sql_log |-> sql_log, issued |-> issued, result |-> result]

\* Package::write / write_timestamp (package.rs 294-307) return the Result;
\* the caller still holds the Package and may write it again
Return ==
    /\ pc = "done"
    /\ result \in {"Ok", "Err"}
    /\ prev' = Some(Outcome)
    /\ pc' = "idle"
    /\ UNCHANGED <<pkg, timestamp, db, sql_log, issued, committed, zip, media_left, result,
                   key_order>>

NextRewrite ==
    \/ PushRewriteDeck
    \/ SetLegacyVersionOnce
    \/ Write
    \/ Return

SpecRewrite == Init /\ [][NextRewrite]_vars

----------------------------------------------------------------------------
(* C23: a write, successful or failed, leaves the Package as it was, and   *)
(* the id allocator is made anew for each write: a second write of the     *)
(* same package with the same timestamp issues the same ids in the same    *)
(* order, executes the same statements, gives the same Result and leaves   *)
(* the same rows, the JSON columns of the col row holding the same         *)
(* objects.                                                                *)
(* As stated (the same rows both times) this fails for the text of the     *)
(* col row: its models and decks columns are serialized from hash maps,    *)
(* and the two writes may put the members in different orders.             *)
SameWriteAgain ==
    /\ pc = "done"
    /\ prev # None
    /\ prev[1].pkg = pkg
    /\ prev[1].timestamp = timestamp

SameIdsAndRows ==
    /\ issued = prev[1].issued
    /\ sql_log = prev[1].sql_log
    /\ result = prev[1].result
    /\ db = prev[1].db

C23_RewriteSameIdsAndRows ==
    /\ [](SameWriteAgain => SameIdsAndRows)
    /\ [][(pc # "idle" \/ pc' # "idle") => pkg' = pkg]_vars

C23_Witness ==
    /\ SameWriteAgain
    /\ result = "Ok"
    /\ Len(issued) >= 2
    /\ Len(TableRows("notes")) = 2
    /\ Len(TableRows("cards")) = 2
    /\ key_order # prev[1].key_order

C23_WitnessFailed ==
    /\ SameWriteAgain
    /\ result = "Err"
    /\ pkg.decks # <<>>

C23_RewriteSameText ==
    SameWriteAgain => (SameIdsAndRows /\ key_order = prev[1].key_order)

====
